---- MODULE Spec2Model ----
(***************************************************************************)
(* IMS maintenance checklists: extraction of the Sheet/Category/Task tree  *)
(* from a styled workbook (core/excel_processor.py), the task completion   *)
(* session (ui/task_completion.py) and the write-back of the session into  *)
(* the workbook (_save_to_excel and its helpers).                          *)
(*                                                                         *)
(* A Python str is a sequence of character codes, so that upper(), lower(),*)
(* strip(), split(), slicing, formatting and parsing are computed and not  *)
(* assumed.  A cell value is None or a str.                                *)
(***************************************************************************)
EXTENDS Integers, Sequences, FiniteSets, TLC

\* ------------------------------------------------------------------------
\* Bounds of the model
\* ------------------------------------------------------------------------
\* last row of every worksheet (worksheet.max_row)
MaxRow == 11
\* last of the columns A.. of every worksheet
MaxCol == 5
\* Previous presses explored in one session
MaxPrevious == 1

\* a column past Z, whose letter has two characters (27 is AA)
WideCol == 27

Rows == 1..MaxRow
Cols == (1..MaxCol) \cup {WideCol}

\* ------------------------------------------------------------------------
\* Python str operations
\* ------------------------------------------------------------------------
IsSpace(c) == c \in {9, 10, 11, 12, 13, 32}
IsAlpha(c) == (c >= 65 /\ c <= 90) \/ (c >= 97 /\ c <= 122)
IsDigit(c) == c >= 48 /\ c <= 57

upper(s) == [i \in 1..Len(s) |-> IF s[i] >= 97 /\ s[i] <= 122 THEN s[i] - 32 ELSE s[i]]
lower(s) == [i \in 1..Len(s) |-> IF s[i] >= 65 /\ s[i] <= 90 THEN s[i] + 32 ELSE s[i]]

RECURSIVE lstrip(_)
lstrip(s) == IF s # <<>> /\ IsSpace(Head(s)) THEN lstrip(Tail(s)) ELSE s

RECURSIVE rstrip(_)
rstrip(s) ==
    IF s # <<>> /\ IsSpace(s[Len(s)]) THEN rstrip(SubSeq(s, 1, Len(s) - 1)) ELSE s

strip(s) == rstrip(lstrip(s))

\* s.split(): the maximal runs of non-whitespace characters, in order
RECURSIVE SplitFrom(_, _, _)
SplitFrom(s, cur, acc) ==
    IF s = <<>> THEN (IF cur = <<>> THEN acc ELSE Append(acc, cur))
    ELSE IF IsSpace(Head(s))
         THEN SplitFrom(Tail(s), <<>>, IF cur = <<>> THEN acc ELSE Append(acc, cur))
         ELSE SplitFrom(Tail(s), Append(cur, Head(s)), acc)

split(s) == SplitFrom(s, <<>>, <<>>)

\* ' '.join(parts)
RECURSIVE join(_)
join(parts) ==
    IF parts = <<>> THEN <<>>
    ELSE IF Len(parts) = 1 THEN parts[1]
    ELSE parts[1] \o <<32>> \o join(Tail(parts))

\* parts[:-3]
DropLast3(parts) == SubSeq(parts, 1, Len(parts) - 3)

\* s[2:]
From2(s) == SubSeq(s, 3, Len(s))

\* ''.join(filter(pred, s))
RECURSIVE FilterAlpha(_)
FilterAlpha(s) ==
    IF s = <<>> THEN <<>>
    ELSE (IF IsAlpha(Head(s)) THEN <<Head(s)>> ELSE <<>>) \o FilterAlpha(Tail(s))

RECURSIVE FilterDigit(_)
FilterDigit(s) ==
    IF s = <<>> THEN <<>>
    ELSE (IF IsDigit(Head(s)) THEN <<Head(s)>> ELSE <<>>) \o FilterDigit(Tail(s))

\* str(n) for n >= 0
RECURSIVE IntToStr(_)
IntToStr(n) == IF n < 10 THEN <<48 + n>> ELSE IntToStr(n \div 10) \o <<48 + (n % 10)>>

\* int(s) of a str of digits; -1 stands for the ValueError of int('')
RECURSIVE DigitsValue(_, _)
DigitsValue(s, acc) ==
    IF s = <<>> THEN acc ELSE DigitsValue(Tail(s), acc * 10 + (Head(s) - 48))

StrToInt(s) == IF s = <<>> THEN -1 ELSE DigitsValue(s, 0)

\* a < b for str (code point order, a proper prefix first)
RECURSIVE StrLess(_, _)
StrLess(a, b) ==
    IF b = <<>> THEN FALSE
    ELSE IF a = <<>> THEN TRUE
    ELSE IF Head(a) # Head(b) THEN Head(a) < Head(b)
    ELSE StrLess(Tail(a), Tail(b))

\* sorted(keys) for a sequence of distinct str
RECURSIVE SortedStrs(_)
SortedStrs(S) ==
    IF S = {} THEN <<>>
    ELSE LET m == CHOOSE x \in S : \A y \in S \ {x} : StrLess(x, y)
         IN  <<m>> \o SortedStrs(S \ {m})

Range(f) == {f[i] : i \in DOMAIN f}

\* ------------------------------------------------------------------------
\* openpyxl.utils
\* ------------------------------------------------------------------------
\* get_column_letter(col), 1 <= col <= 18278
RECURSIVE get_column_letter(_)
get_column_letter(col) ==
    IF col <= 26 THEN <<64 + col>>
    ELSE get_column_letter((col - 1) \div 26) \o <<65 + ((col - 1) % 26)>>

\* column_index_from_string(letters); 0 stands for its ValueError
RECURSIVE LettersValue(_, _)
LettersValue(s, acc) ==
    IF s = <<>> THEN acc
    ELSE LettersValue(Tail(s), acc * 26 + (Head(upper(s)) - 64))

column_index_from_string(s) ==
    IF s = <<>> \/ Len(s) > 3 \/ \E i \in 1..Len(s) : ~IsAlpha(s[i]) THEN 0
    ELSE LettersValue(s, 0)

\* f"{get_column_letter(cell.column)}{cell.row}"
Coordinate(col, row) == get_column_letter(col) \o IntToStr(row)

\* ------------------------------------------------------------------------
\* config/settings.py
\* ------------------------------------------------------------------------
INPUT_HEADERS ==
    { <<68, 97, 116, 101, 32, 73, 110, 115, 112, 101, 99, 116, 101, 100, 32, 98, 121, 32, 119, 104, 111, 63>>,
      <<79, 75>>,
      <<79, 75, 63>>,
      <<68, 97, 116, 101, 32, 73, 110, 115, 112, 101, 99, 116, 101, 100, 32, 98, 121, 32, 119, 104, 111>>,
      <<87, 104, 97, 116, 32, 116, 111, 32, 108, 111, 111, 107, 32, 102, 111, 114, 58>>,
      <<87, 104, 97, 116, 32, 116, 111, 32, 108, 111, 111, 107, 32, 102, 111, 114, 63>> }

CATEGORY_COLOR == "FFFFFF00"

\* "no input"
DEFAULT_VALUE == <<110, 111, 32, 105, 110, 112, 117, 116>>

\* "comments:"
COMMENTS == <<99, 111, 109, 109, 101, 110, 116, 115, 58>>

\* ------------------------------------------------------------------------
\* Cells and worksheets
\* ------------------------------------------------------------------------
None == [isNone |-> TRUE, s |-> <<>>]
Str(s) == [isNone |-> FALSE, s |-> s]

\* Python truthiness of a cell value: None and '' are falsy
Truthy(v) == ~v.isNone /\ v.s # <<>>

\* str(cell.value)
StrOf(v) == IF v.isNone THEN <<78, 111, 110, 101>> ELSE v.s

\* a merged range covers (row, col)
InRange(mr, row, col) ==
    /\ mr.min_row <= row /\ row <= mr.max_row
    /\ mr.min_col <= col /\ col <= mr.max_col

\* openpyxl keeps a MergedCell (value None, read-only) at every cell of a
\* merged range but its top-left one
IsMergedCell(merged, row, col) ==
    \E mr \in merged : InRange(mr, row, col) /\ ~(row = mr.min_row /\ col = mr.min_col)

\* ------------------------------------------------------------------------
\* core/excel_processor.py: extraction
\* ------------------------------------------------------------------------
\* rows scanned for input headers: iter_rows(max_row=10)
HEADER_SCAN_ROWS == 10

\* sorted(ints)
RECURSIVE SortedInts(_)
SortedInts(S) ==
    IF S = {} THEN <<>>
    ELSE LET m == CHOOSE x \in S : \A y \in S : x <= y
         IN  <<m>> \o SortedInts(S \ {m})

\* a header scan over every row of the worksheet
FindInputColumnsAnyRow(worksheet) ==
    SortedInts({ c \in Cols :
        /\ c > 1
        /\ \E r \in Rows :
              /\ ~worksheet.cells[<<r, c>>].isNone
              /\ worksheet.cells[<<r, c>>].s \in INPUT_HEADERS })

\* ExcelProcessor._find_input_columns
_find_input_columns(worksheet) ==
    SortedInts({ c \in Cols :
        /\ c > 1
        /\ \E r \in Rows :
              /\ r <= HEADER_SCAN_ROWS
              /\ ~worksheet.cells[<<r, c>>].isNone
              /\ worksheet.cells[<<r, c>>].s \in INPUT_HEADERS })

\* ExcelProcessor._get_input_values: the ordered mapping coordinate -> value
_get_input_values(worksheet, row, input_cols) ==
    [ i \in 1..Len(input_cols) |->
        LET v == worksheet.cells[<<row, input_cols[i]>>]
        IN  [ key   |-> Coordinate(input_cols[i], row),
              value |-> IF Truthy(v) THEN StrOf(v) ELSE DEFAULT_VALUE ] ]

\* a row loop that tests for a bold lead cell before it tests for the category
\* colour
ProcessRowBoldFirst(worksheet, input_cols, r, st) ==
    LET first_cell == worksheet.cells[<<r, 1>>]
        cell_value == strip(StrOf(first_cell))
    IN  IF ~Truthy(first_cell) THEN st
        ELSE IF worksheet.bold[r]
        THEN IF st.current # <<>>
             THEN [ st EXCEPT !.current[1].tasks =
                        Append(@, [ name        |-> cell_value,
                                    description |-> <<>>,
                                    inputs      |-> _get_input_values(worksheet, r, input_cols) ]) ]
             ELSE st
        ELSE IF worksheet.fill[r] = CATEGORY_COLOR
        THEN [ categories |-> st.categories \o st.current,
               current    |-> << [name |-> cell_value, tasks |-> <<>>] >> ]
        ELSE IF st.current # <<>> /\ st.current[1].tasks # <<>>
        THEN LET n == Len(st.current[1].tasks)
             IN  [ st EXCEPT !.current[1].tasks[n].description =
                        IF @ # <<>> THEN @ \o <<32>> \o cell_value ELSE cell_value ]
        ELSE st

\* a row loop that puts the separator before every description line
ProcessRowAlwaysSeparator(worksheet, input_cols, r, st) ==
    LET first_cell == worksheet.cells[<<r, 1>>]
        cell_value == strip(StrOf(first_cell))
    IN  IF ~Truthy(first_cell) THEN st
        ELSE IF worksheet.fill[r] = CATEGORY_COLOR /\ worksheet.bold[r]
        THEN [ categories |-> st.categories \o st.current,
               current    |-> << [name |-> cell_value, tasks |-> <<>>] >> ]
        ELSE IF worksheet.bold[r]
        THEN IF st.current # <<>>
             THEN [ st EXCEPT !.current[1].tasks =
                        Append(@, [ name        |-> cell_value,
                                    description |-> <<>>,
                                    inputs      |-> _get_input_values(worksheet, r, input_cols) ]) ]
             ELSE st
        ELSE IF st.current # <<>> /\ st.current[1].tasks # <<>>
        THEN LET n == Len(st.current[1].tasks)
             IN  [ st EXCEPT !.current[1].tasks[n].description = @ \o <<32>> \o cell_value ]
        ELSE st

\* one row of the loop of ExcelProcessor._process_worksheet; st.current is
\* <<>> while current_category is None and <<category>> afterwards
ProcessRow(worksheet, input_cols, r, st) ==
    LET first_cell == worksheet.cells[<<r, 1>>]
        cell_value == strip(StrOf(first_cell))
    IN  IF ~Truthy(first_cell) THEN st
        ELSE IF worksheet.fill[r] = CATEGORY_COLOR /\ worksheet.bold[r]
        THEN [ categories |-> st.categories \o st.current,
               current    |-> << [name |-> cell_value, tasks |-> <<>>] >> ]
        ELSE IF worksheet.bold[r]
        THEN IF st.current # <<>>
             THEN [ st EXCEPT !.current[1].tasks =
                        Append(@, [ name        |-> cell_value,
                                    description |-> <<>>,
                                    inputs      |-> _get_input_values(worksheet, r, input_cols) ]) ]
             ELSE st
        ELSE IF st.current # <<>> /\ st.current[1].tasks # <<>>
        THEN LET n == Len(st.current[1].tasks)
             IN  [ st EXCEPT !.current[1].tasks[n].description =
                        IF @ # <<>> THEN @ \o <<32>> \o cell_value ELSE cell_value ]
        ELSE st

RECURSIVE ProcessRows(_, _, _, _)
ProcessRows(worksheet, input_cols, r, st) ==
    IF r > MaxRow THEN st
    ELSE ProcessRows(worksheet, input_cols, r + 1, ProcessRow(worksheet, input_cols, r, st))

\* ExcelProcessor._process_worksheet for the worksheet at 1-based position sheet_number
_process_worksheet(worksheet, sheet_number) ==
    LET st == ProcessRows(worksheet, _find_input_columns(worksheet), 1,
                          [categories |-> <<>>, current |-> <<>>])
    IN  [ name       |-> <<83, 104, 101, 101, 116, 32>> \o IntToStr(sheet_number),
          categories |-> st.categories \o st.current ]

\* ExcelProcessor.process_workbook followed by save_to_json and json.load
process_workbook(workbook) ==
    [ i \in 1..Len(workbook) |-> _process_worksheet(workbook[i], i) ]

\* ------------------------------------------------------------------------
\* ui/task_completion.py: helpers of the write-back
\* ------------------------------------------------------------------------
\* first row the reset pass clears: range(9, worksheet.max_row + 1)
FIRST_DATA_ROW == 9

\* Python list indexing: seq[i] with 0-based i, negative i counting from the end
PyValid(seq, i) == -Len(seq) <= i /\ i < Len(seq)
PyGet(seq, i) == IF i >= 0 THEN seq[i + 1] ELSE seq[Len(seq) + i + 1]

\* the comparison of the name as it stands, without .lower().strip()
IsCommentTaskExact(task) == task.name = COMMENTS

\* task['name'].lower().strip() == "comments:"
IsCommentTask(task) == strip(lower(task.name)) = COMMENTS

\* the tasks of a sheet in the order of the loops over categories and tasks
RECURSIVE TasksOf(_)
TasksOf(categories) ==
    IF categories = <<>> THEN <<>> ELSE Head(categories).tasks \o TasksOf(Tail(categories))

\* task['inputs'].keys()
Keys(task) == [i \in 1..Len(task.inputs) |-> task.inputs[i].key]

\* sorted(task['inputs'].keys())
SortedKeys(task) == SortedStrs(Range(Keys(task)))

NoCell == [ok |-> FALSE, row |-> 0, col |-> 0]
CellAt(row, col) == [ok |-> TRUE, row |-> row, col |-> col]

\* a resolver that returns the requested cell whatever the merged ranges are
RequestedCell(merged, cell_ref) ==
    LET row_number == StrToInt(FilterDigit(cell_ref))
        column     == column_index_from_string(FilterAlpha(cell_ref))
    IN  IF row_number < 1 \/ column = 0 THEN NoCell ELSE CellAt(row_number, column)

\* TaskCompletionUI._get_unmerged_cell: the cell a write to cell_ref goes to;
\* NoCell is the None returned when the reference cannot be parsed or addressed
_get_unmerged_cell(merged, cell_ref) ==
    LET column_letter == FilterAlpha(cell_ref)
        row_number    == StrToInt(FilterDigit(cell_ref))
        column        == column_index_from_string(column_letter)
        hits          == { mr \in merged : InRange(mr, row_number, column) }
    IN  IF row_number < 0 \/ column = 0 THEN NoCell
        ELSE IF hits # {}
        THEN LET merge_range == CHOOSE mr \in hits : TRUE
             IN  CellAt(merge_range.min_row, merge_range.min_col)
        ELSE IF row_number < 1 THEN NoCell
        ELSE CellAt(row_number, column)

\* cell.value of the cell _get_unmerged_cell returned
ValueAt(cells, cell) == cells[<<cell.row, cell.col>>]

\* the loop of TaskCompletionUI._find_next_empty_columns
RECURSIVE ScanEmpty(_, _, _, _)
ScanEmpty(cells, merged, input_cells, empty_columns) ==
    IF input_cells = <<>> \/ Len(empty_columns) = 2 THEN empty_columns
    ELSE LET cell == _get_unmerged_cell(merged, Head(input_cells))
         IN  ScanEmpty(cells, merged, Tail(input_cells),
                       IF cell.ok /\ ~Truthy(ValueAt(cells, cell))
                       THEN Append(empty_columns, Head(input_cells))
                       ELSE empty_columns)

\* input_cells[:2]
First2(input_cells) == SubSeq(input_cells, 1, IF Len(input_cells) < 2 THEN Len(input_cells) ELSE 2)

\* an allocator that returns the first two declared coordinates whatever the cells hold
FirstTwoDeclared(cells, merged, task) == First2(SortedKeys(task))

\* TaskCompletionUI._find_next_empty_columns
_find_next_empty_columns(cells, merged, task) ==
    LET input_cells   == SortedKeys(task)
        empty_columns == ScanEmpty(cells, merged, input_cells, <<>>)
    IN  IF Len(empty_columns) = 2 THEN empty_columns
        ELSE IF empty_columns # <<>> THEN empty_columns
        ELSE First2(input_cells)

\* f"{initials.upper()} {day} {month.upper()} {year[2:]}"
DateString(initials, day, month, year) ==
    upper(initials) \o <<32>> \o day \o <<32>> \o upper(month) \o <<32>> \o From2(year)

\* the body of the task loop of _write_new_month_data and _write_same_month_data
\* once the targets of task number task_no are chosen.  sel carries the
\* session's StringVars; sel.task_status is None while no task frame was ever
\* created, and self.task_status then raises AttributeError.  w is
\* [cells, error, events]; the event of a task records its targets and, when
\* there are two, the cells _get_unmerged_cell resolved them to.
WriteTargets(w, merged, task_no, targets, sel) ==
    IF w.error THEN w
    ELSE IF Len(targets) < 2
    THEN [ w EXCEPT !.events =
             Append(@, [task |-> task_no, targets |-> targets, resolved |-> <<>>]) ]
    ELSE LET cell1 == _get_unmerged_cell(merged, targets[1])
             cell2 == _get_unmerged_cell(merged, targets[2])
             date  == Str(DateString(sel.initials, sel.selected_day,
                                     sel.selected_month, sel.selected_year))
             c1    == IF cell1.ok
                      THEN [w.cells EXCEPT ![<<cell1.row, cell1.col>>] = date]
                      ELSE w.cells
         IN  IF cell2.ok /\ sel.task_status.isNone
             THEN [cells |-> c1, error |-> TRUE, events |-> w.events]
             ELSE [ cells  |-> IF cell2.ok
                               THEN [c1 EXCEPT ![<<cell2.row, cell2.col>>] =
                                         Str(upper(sel.task_status.s))]
                               ELSE c1,
                    error  |-> FALSE,
                    events |-> Append(w.events,
                                 [ task     |-> task_no,
                                   targets  |-> SubSeq(targets, 1, 2),
                                   resolved |-> <<cell1, cell2>> ]) ]

\* TaskCompletionUI._write_new_month_data from task number i of one sheet on
RECURSIVE WriteNewTasks(_, _, _, _, _)
WriteNewTasks(w, merged, tasks, i, sel) ==
    IF i > Len(tasks) \/ w.error THEN w
    ELSE WriteNewTasks(
            IF IsCommentTask(tasks[i]) THEN w
            ELSE LET input_cells == SortedKeys(tasks[i])
                 IN  WriteTargets(w, merged, i, input_cells, sel),
            merged, tasks, i + 1, sel)

_write_new_month_data(cells, merged, sheet_data, sel) ==
    WriteNewTasks([cells |-> cells, error |-> FALSE, events |-> <<>>],
                  merged, TasksOf(sheet_data.categories), 1, sel)

\* TaskCompletionUI._write_same_month_data from task number i of one sheet on
RECURSIVE WriteSameTasks(_, _, _, _, _)
WriteSameTasks(w, merged, tasks, i, sel) ==
    IF i > Len(tasks) \/ w.error THEN w
    ELSE WriteSameTasks(
            IF IsCommentTask(tasks[i]) THEN w
            ELSE LET empty_cells == _find_next_empty_columns(w.cells, merged, tasks[i])
                 IN  WriteTargets(w, merged, i, empty_cells, sel),
            merged, tasks, i + 1, sel)

_write_same_month_data(cells, merged, sheet_data, sel) ==
    WriteSameTasks([cells |-> cells, error |-> FALSE, events |-> <<>>],
                   merged, TasksOf(sheet_data.categories), 1, sel)

\* the columns TaskCompletionUI._clear_previous_month_data clears: cell_ref[0] of
\* every input key of the tasks of data[0]['categories'][0], 'A' skipped
ClearColumns(data) ==
    LET tasks  == data[1].categories[1].tasks
        firsts == UNION { { <<tasks[i].inputs[j].key[1]>> : j \in 1..Len(tasks[i].inputs) } :
                          i \in 1..Len(tasks) }
    IN  { column \in firsts : column # <<65>> }

\* TaskCompletionUI._clear_previous_month_data on one worksheet
ClearSheet(cells, merged, columns) ==
    LET col_idx == { column_index_from_string(column) : column \in columns }
    IN  [ rc \in DOMAIN cells |->
            IF /\ rc[2] \in col_idx
               /\ rc[1] >= FIRST_DATA_ROW
               /\ ~IsMergedCell(merged, rc[1], rc[2])
            THEN None ELSE cells[rc] ]

\* TaskCompletionUI._clear_previous_month_data: [cells of every worksheet, error];
\* IndexError when the first sheet has no category, ValueError when a key does
\* not start with a letter
_clear_previous_month_data(wbcells, workbook, data) ==
    IF data[1].categories = <<>>
    THEN [cells |-> wbcells, error |-> TRUE]
    ELSE IF \E column \in ClearColumns(data) : column_index_from_string(column) = 0
    THEN [cells |-> wbcells, error |-> TRUE]
    ELSE [ cells |-> [ i \in 1..Len(wbcells) |->
                         ClearSheet(wbcells[i], workbook[i].merged, ClearColumns(data)) ],
           error |-> FALSE ]

\* line 552: old_month != self.selected_month.get().upper()
MonthChanged(old_month, selected_month) == old_month # upper(selected_month)

\* the comparison of line 560 without .upper() on the selected month
SameMonthRaw(old_month, selected_month) == old_month = selected_month

\* line 560: old_month == self.selected_month.get().upper()
SameMonth(old_month, selected_month) == old_month = upper(selected_month)

\* int(sheet_data['name'].split()[-1]) - 1; -2 stands for the errors of [-1] and int()
SheetIndex(sheet_data) ==
    LET parts == split(sheet_data.name)
    IN  IF parts = <<>> \/ \E i \in 1..Len(parts[Len(parts)]) : ~IsDigit(parts[Len(parts)][i])
        THEN -2
        ELSE StrToInt(parts[Len(parts)]) - 1

\* the loop "for sheet_data in self.data" of TaskCompletionUI._save_to_excel from
\* sheet number n of the tree on: p is [cells of every worksheet, error, log]
RECURSIVE WritePass(_, _, _, _, _, _)
WritePass(p, workbook, d, n, old_month, sel) ==
    IF n > Len(d) \/ p.error THEN p
    ELSE LET sheet_data  == d[n]
             sheet_index == SheetIndex(sheet_data)
             same        == SameMonth(old_month, sel.selected_month)
         IN  IF sheet_index = -2 THEN [p EXCEPT !.error = TRUE]
             ELSE IF ~(0 <= sheet_index /\ sheet_index < Len(p.cells))
             THEN WritePass(p, workbook, d, n + 1, old_month, sel)
             ELSE LET ws == sheet_index + 1
                      w  == IF same
                            THEN _write_same_month_data(p.cells[ws], workbook[ws].merged,
                                                        sheet_data, sel)
                            ELSE _write_new_month_data(p.cells[ws], workbook[ws].merged,
                                                       sheet_data, sel)
                  IN  WritePass(
                        [ cells |-> [p.cells EXCEPT ![ws] = w.cells],
                          error |-> w.error,
                          log   |-> Append(p.log,
                                      [ op     |-> IF same THEN "write_same" ELSE "write_new",
                                        sheet  |-> n,
                                        ws     |-> ws,
                                        writes |-> w.events ]) ],
                        workbook, d, n + 1, old_month, sel)

\* ------------------------------------------------------------------------
\* ui/task_completion.py: the cursor over the tree
\* ------------------------------------------------------------------------
\* TaskCompletionUI._validate_indices
_validate_indices(d, cs, cc, ct) ==
    /\ 0 <= cs /\ cs < Len(d)
    /\ 0 <= cc /\ cc < Len(d[cs + 1].categories)
    /\ 0 <= ct /\ ct < Len(d[cs + 1].categories[cc + 1].tasks)

\* TaskCompletionUI._get_current_task: <<>> is None, <<task>> the task
_get_current_task(d, cs, cc, ct) ==
    IF _validate_indices(d, cs, cc, ct)
    THEN << d[cs + 1].categories[cc + 1].tasks[ct + 1] >>
    ELSE <<>>

\* TaskCompletionUI._is_first_task
_is_first_task(cs, cc, ct) == cs = 0 /\ cc = 0 /\ ct = 0

\* TaskCompletionUI._is_last_task: "error" is the IndexError of categories[-1]
\* on a last sheet without categories
_is_last_task(d, cs, cc, ct) ==
    LET last_sheet == Len(d) - 1
        categories == d[last_sheet + 1].categories
        last_category == Len(categories) - 1
    IN  IF categories = <<>> THEN "error"
        ELSE IF /\ cs = last_sheet
                /\ cc = last_category
                /\ ct = Len(categories[last_category + 1].tasks) - 1
        THEN "yes" ELSE "no"

\* the first inputs entry whose value.lower() is "no input"; 0 when there is none
FirstNoInput(inputs) ==
    LET free == { i \in 1..Len(inputs) : lower(inputs[i].value) = DEFAULT_VALUE }
    IN  IF free = {} THEN 0 ELSE CHOOSE i \in free : \A j \in free : i <= j

\* TaskCompletionUI._save_current_task: the tree with the current task's next
\* two unfilled slots set to the date string and the status
_save_current_task(d, cs, cc, ct, sel) ==
    LET cur == _get_current_task(d, cs, cc, ct)
    IN  IF cur = <<>> THEN d
        ELSE IF IsCommentTask(cur[1]) THEN d
        ELSE LET empty_cell == FirstNoInput(cur[1].inputs)
             IN  IF empty_cell = 0 THEN d
                 ELSE LET in1 == [ cur[1].inputs EXCEPT ![empty_cell].value =
                                     DateString(sel.initials, sel.selected_day,
                                                sel.selected_month, sel.selected_year) ]
                          next_cell == FirstNoInput(in1)
                          in2 == IF next_cell = 0 \/ sel.task_status.isNone THEN in1
                                 ELSE [ in1 EXCEPT ![next_cell].value =
                                          upper(sel.task_status.s) ]
                      IN  [ d EXCEPT ![cs + 1].categories[cc + 1].tasks[ct + 1].inputs = in2 ]

\* the (s_idx, c_idx, t_idx) the three nested loops of _get_total_tasks and
\* _get_current_task_number visit, in order
TaskPositions(s, c, n) == [t \in 1..n |-> <<s, c, t - 1>>]

RECURSIVE CategoryPositions(_, _, _)
CategoryPositions(d, s, c) ==
    IF c >= Len(d[s + 1].categories) THEN <<>>
    ELSE TaskPositions(s, c, Len(d[s + 1].categories[c + 1].tasks))
         \o CategoryPositions(d, s, c + 1)

RECURSIVE Positions(_, _)
Positions(d, s) ==
    IF s >= Len(d) THEN <<>> ELSE CategoryPositions(d, s, 0) \o Positions(d, s + 1)

\* the task at a visited position
TaskAtPos(d, p) == d[p[1] + 1].categories[p[2] + 1].tasks[p[3] + 1]

\* a count that takes every task, comment tasks included
RECURSIVE CountEvery(_, _, _)
CountEvery(d, pos, total) ==
    IF pos = <<>> THEN total ELSE CountEvery(d, Tail(pos), total + 1)

\* the loops of TaskCompletionUI._get_total_tasks over the positions left
RECURSIVE CountTasks(_, _, _)
CountTasks(d, pos, total) ==
    IF pos = <<>> THEN total
    ELSE CountTasks(d, Tail(pos),
                    IF ~IsCommentTask(TaskAtPos(d, Head(pos))) THEN total + 1 ELSE total)

\* TaskCompletionUI._get_total_tasks
_get_total_tasks(d) == CountTasks(d, Positions(d, 0), 0)

\* a numbering that takes every task, comment tasks included
RECURSIVE NumberEvery(_, _, _, _)
NumberEvery(d, pos, cursor, current) ==
    IF pos = <<>> THEN current
    ELSE IF Head(pos) = cursor THEN current + 1
    ELSE NumberEvery(d, Tail(pos), cursor, current + 1)

\* the loops of TaskCompletionUI._get_current_task_number over the positions left
RECURSIVE NumberTasks(_, _, _, _)
NumberTasks(d, pos, cursor, current) ==
    IF pos = <<>> THEN current
    ELSE LET counted == IF ~IsCommentTask(TaskAtPos(d, Head(pos)))
                        THEN current + 1 ELSE current
         IN  IF Head(pos) = cursor THEN counted
             ELSE NumberTasks(d, Tail(pos), cursor, counted)

\* TaskCompletionUI._get_current_task_number
_get_current_task_number(d, cs, cc, ct) == NumberTasks(d, Positions(d, 0), <<cs, cc, ct>>, 0)

\* TaskCompletionUI._create_navigation_frame: the numbers of "Task {n} of {total}"
_create_navigation_frame(d, cs, cc, ct) ==
    [ shown            |-> TRUE,
      cursor           |-> <<cs, cc, ct>>,
      total_tasks      |-> _get_total_tasks(d),
      current_task_num |-> _get_current_task_number(d, cs, cc, ct) ]

\* the while loop of TaskCompletionUI._next_task from cursor (cs, cc, ct):
\* "show" when it breaks on a task to present, "complete" when it runs off the
\* last sheet, "error" when an index raises (the cursor keeps what was assigned)
RECURSIVE Advance(_, _, _, _)
Advance(d, cs, cc, ct) ==
    LET categories == d[cs + 1].categories
    IN  IF ~PyValid(categories, cc)
        THEN [kind |-> "error", cs |-> cs, cc |-> cc, ct |-> ct]
        ELSE LET moved ==
                   IF ct < Len(PyGet(categories, cc).tasks) - 1
                   THEN [kind |-> "moved", cs |-> cs, cc |-> cc, ct |-> ct + 1]
                   ELSE IF cc < Len(categories) - 1
                   THEN [kind |-> "moved", cs |-> cs, cc |-> cc + 1, ct |-> 0]
                   ELSE IF cs < Len(d) - 1
                   THEN [kind |-> "moved", cs |-> cs + 1, cc |-> 0, ct |-> 0]
                   ELSE [kind |-> "complete", cs |-> cs, cc |-> cc, ct |-> ct]
                 current_task == _get_current_task(d, moved.cs, moved.cc, moved.ct)
             IN  IF moved.kind = "complete" THEN moved
                 ELSE IF current_task # <<>> /\ ~IsCommentTask(current_task[1])
                 THEN [moved EXCEPT !.kind = "show"]
                 ELSE Advance(d, moved.cs, moved.cc, moved.ct)

\* the cursor moves of TaskCompletionUI._previous_task; "error" is the
\* IndexError of lines 394 and 398 (the assignments before it are kept)
Retreat(d, cs, cc, ct) ==
    IF ct > 0 THEN [kind |-> "show", cs |-> cs, cc |-> cc, ct |-> ct - 1]
    ELSE IF cc > 0
    THEN [ kind |-> "show", cs |-> cs, cc |-> cc - 1,
           ct |-> Len(d[cs + 1].categories[cc].tasks) - 1 ]
    ELSE LET ps == IF cs - 1 >= 0 THEN cs - 1 ELSE Len(d) + cs - 1
             categories == d[ps + 1].categories
         IN  IF categories = <<>>
             THEN [kind |-> "error", cs |-> cs - 1, cc |-> -1, ct |-> ct]
             ELSE [ kind |-> "show", cs |-> cs - 1, cc |-> Len(categories) - 1,
                    ct |-> Len(categories[Len(categories)].tasks) - 1 ]

\* ------------------------------------------------------------------------
\* Input documents
\* ------------------------------------------------------------------------
\* lead cell texts: "Fire Safety", "Check", "Comments:", "See gauge", "Note"
LeadText(kind) ==
    CASE kind = "category" -> Str(<<70, 105, 114, 101, 32, 83, 97, 102, 101, 116, 121>>)
      [] kind = "task"     -> Str(<<67, 104, 101, 99, 107>>)
      [] kind = "comment"  -> Str(<<67, 111, 109, 109, 101, 110, 116, 115, 58>>)
      [] kind = "plain"    -> Str(<<83, 101, 101, 32, 103, 97, 117, 103, 101>>)
      [] kind = "yellow"   -> Str(<<78, 111, 116, 101>>)
      [] kind = "spaces"   -> Str(<<32, 32>>)
      [] OTHER             -> None

\* the styled rows of column A of the documents explored: the usual layout
\* (tasks below the header rows) and one whose category and first task sit
\* inside rows 1-8
LeadLayouts ==
    { [r \in Rows |-> CASE r = 9 -> "category" [] r = 10 -> "task" [] r = 11 -> "task"
                        [] OTHER -> "blank"],
      [r \in Rows |-> CASE r = 7 -> "category" [] r = 8 -> "task" [] r = 9 -> "plain"
                        [] r = 10 -> "task" [] r = 11 -> "comment" [] OTHER -> "blank"] }

\* the input header of row 5: "Date Inspected by who?" over column B, "OK" over
\* the other input columns
HeaderText(c) ==
    IF c = 2
    THEN Str(<<68, 97, 116, 101, 32, 73, 110, 115, 112, 101, 99, 116, 101, 100, 32, 98, 121, 32, 119, 104, 111, 63>>)
    ELSE Str(<<79, 75>>)

\* the sets of input columns explored: B..C and B..D
HeaderLayouts == { 2..3, 2..4 }

\* an earlier entry of an input cell: "x"
OldEntry == Str(<<120>>)

\* the merged regions explored: none, or one region of two cells, side by side
\* on the first task row (A:B, B:C, C:D) or one above the other ending on it
\* (in B, in C)
MergeLayouts(lead) ==
    LET r == CHOOSE x \in Rows : lead[x] = "task" /\ \A y \in Rows : lead[y] = "task" => x <= y
    IN  {{}} \cup
        { { [min_row |-> r, max_row |-> r, min_col |-> c, max_col |-> c + 1] } : c \in 1..3 } \cup
        { { [min_row |-> r - 1, max_row |-> r, min_col |-> c, max_col |-> c] } : c \in 2..3 }

\* the worksheet with the given lead column, header columns, previously filled
\* input columns and merged regions
MkSheet(lead, hdr, filled, merged) ==
    [ cells  |-> [ rc \in Rows \X Cols |->
                     IF IsMergedCell(merged, rc[1], rc[2]) THEN None
                     ELSE IF rc[2] = 1 THEN LeadText(lead[rc[1]])
                     ELSE IF rc[1] = 5 /\ rc[2] \in hdr THEN HeaderText(rc[2])
                     ELSE IF lead[rc[1]] \in {"task", "comment"} /\ rc[2] \in filled
                     THEN OldEntry
                     ELSE None ],
      bold   |-> [ r \in Rows |-> lead[r] \in {"category", "task", "comment"} ],
      fill   |-> [ r \in Rows |-> IF lead[r] \in {"category", "yellow"}
                                  THEN CATEGORY_COLOR ELSE "00000000" ],
      merged |-> merged ]

\* the workbooks explored: every one-sheet workbook of the layouts above, and
\* two-sheet workbooks whose first sheet has the usual layout, with input
\* columns B..C and nothing filled or input columns B..D all filled, and whose
\* second sheet has one task, input columns B..D and D filled
UsualLead == CHOOSE l \in LeadLayouts : l[9] = "category"

SecondLead == [r \in Rows |-> CASE r = 9 -> "category" [] r = 10 -> "task" [] OTHER -> "blank"]

\* a lead column with rows of every kind before and after the category header:
\* a bold row and a plain row above it, a row in the category colour that is
\* not bold, a plain row right under the header, a comment task before a
\* task, and a row in the category colour that is not bold under the task
MixedLead ==
    [r \in Rows |-> CASE r = 3 -> "task" [] r = 4 -> "plain" [] r = 6 -> "yellow"
                       [] r = 7 -> "category" [] r = 8 -> "plain" [] r = 9 -> "comment"
                       [] r = 10 -> "task" [] r = 11 -> "yellow" [] OTHER -> "blank"]

\* the workbooks of one sheet with that lead column: input columns B..C,
\* nothing filled or B filled
MixedWorkbooks == { << MkSheet(MixedLead, 2..3, filled, {}) >> : filled \in { {}, {2} } }

\* the workbooks of one sheet with the usual lead column whose input columns
\* are B and the wide column, nothing filled or both filled
WideWorkbooks ==
    { << MkSheet(UsualLead, {2, WideCol}, filled, {}) >> : filled \in { {}, {2, WideCol} } }

\* the usual one-sheet workbook, input columns B..C, with further cells that
\* hold a label: "OK" in A5 (column A), "ok" in D5 (other case), and "OK" in
\* D11 (below row 10) or in D10 (in row 10)
LabelWorkbooks ==
    { << [ MkSheet(UsualLead, 2..3, {}, {}) EXCEPT
             !.cells = [ @ EXCEPT ![<<5, 1>>] = Str(<<79, 75>>),
                                  ![<<5, 4>>] = Str(<<111, 107>>),
                                  ![<<r, 4>>] = Str(<<79, 75>>) ] ] >> : r \in {10, 11} }

\* a lead column with two categories: a task followed by two rows that are
\* not bold (each one a text or two spaces), a task followed by nothing, then
\* the second category with a plain row right under its header and a task
\* followed by a plain row
DescLead(x, z) ==
    [r \in Rows |-> CASE r = 2 -> "category" [] r = 3 -> "task" [] r = 4 -> x
                       [] r = 6 -> z [] r = 7 -> "task" [] r = 8 -> "category"
                       [] r = 9 -> "plain" [] r = 10 -> "task" [] r = 11 -> "plain"
                       [] OTHER -> "blank"]

DescWorkbooks ==
    { << MkSheet(DescLead(x, z), 2..3, {}, {}) >> : x \in {"plain", "spaces"},
                                                    z \in {"plain", "spaces"} }

\* a lead column whose second category has no task: a category with one task,
\* two category headers in a row, a task
GapLead ==
    [r \in Rows |-> CASE r = 7 -> "category" [] r = 8 -> "task" [] r = 9 -> "category"
                       [] r = 10 -> "category" [] r = 11 -> "task" [] OTHER -> "blank"]

\* a lead column without a category header
BlankLead == [r \in Rows |-> "blank"]

\* workbooks whose tree has a category without tasks, a sheet without
\* categories between two sheets with tasks, or a last sheet without categories
NavWorkbooks ==
    { << MkSheet(GapLead, 2..3, {}, {}) >>,
      << MkSheet(UsualLead, 2..3, {}, {}), MkSheet(BlankLead, 2..3, {}, {}),
         MkSheet(SecondLead, 2..3, {}, {}) >>,
      << MkSheet(UsualLead, 2..3, {}, {}), MkSheet(BlankLead, 2..3, {}, {}) >> }

Workbooks ==
    { << MkSheet(p[1], p[2], p[3], p[4]) >> :
        p \in { q \in LeadLayouts \X HeaderLayouts \X (SUBSET (2..4)) \X
                      UNION { MergeLayouts(l) : l \in LeadLayouts } :
                  q[4] \in MergeLayouts(q[1]) } }
    \cup
    { << MkSheet(UsualLead, filled \cup (2..3), filled, {}),
         MkSheet(SecondLead, 2..4, {4}, {}) >> : filled \in { {}, 2..4 } }
    \cup MixedWorkbooks \cup WideWorkbooks \cup LabelWorkbooks \cup DescWorkbooks
    \cup NavWorkbooks

\* file name stems: "Fire Panel 12 JAN 24", "Fire Panel 12 Jan 24", "Fire Panel 12 FEB 24"
Stems ==
    { <<70, 105, 114, 101, 32, 80, 97, 110, 101, 108, 32, 49, 50, 32, 74, 65, 78, 32, 50, 52>>,
      <<70, 105, 114, 101, 32, 80, 97, 110, 101, 108, 32, 49, 50, 32, 74, 97, 110, 32, 50, 52>>,
      <<70, 105, 114, 101, 32, 80, 97, 110, 101, 108, 32, 49, 50, 32, 70, 69, 66, 32, 50, 52>> }

\* file name stems of fewer than three tokens: "JAN 24", "Panel", " "
ShortStems == { <<74, 65, 78, 32, 50, 52>>, <<80, 97, 110, 101, 108>>, <<32>> }

\* a file name stem with another day and another year: "Fire Panel 07 JAN 23"
YearStems == { <<70, 105, 114, 101, 32, 80, 97, 110, 101, 108, 32, 48, 55, 32, 74, 65, 78, 32, 50, 51>> }

\* what the user can enter in the details form: "jd"; "15", "03"; "Jan", "Feb";
\* "2024", "2025"
InitialsChoices == { <<106, 100>> }
DayChoices == { <<49, 53>>, <<48, 51>> }
MonthChoices == { <<74, 97, 110>>, <<70, 101, 98>> }
YearChoices == { <<50, 48, 50, 52>>, <<50, 48, 50, 53>> }

\* the details explored: every combination with day "15" and year "2024", day
\* "03" with "Feb" and "2024", and year "2025" with "15" and "Jan"
DetailsChoices ==
    { d \in InitialsChoices \X DayChoices \X MonthChoices \X YearChoices :
        /\ d[2] = <<48, 51>> => d[3] = <<70, 101, 98>>
        /\ d[4] = <<50, 48, 50, 53>> => (d[2] = <<49, 53>> /\ d[3] = <<74, 97, 110>>) }

\* the radio buttons of the task frame: "OK", "NOT_OK"
StatusChoices == { <<79, 75>>, <<78, 79, 84, 95, 79, 75>> }

\* ------------------------------------------------------------------------
\* State
\* ------------------------------------------------------------------------
VARIABLES
    workbook,          \* the worksheets of the source .xlsx
    stem,              \* stem of the source .xlsx and of its .json
    json_exists,       \* the .json of the session is on disk
    json_source,       \* history: "none", "extracted" or "hand" (who wrote the .json)
    ui,                \* "selector", "details", "tasks", "closed"
    data,              \* self.data
    current_sheet,     \* self.current_sheet
    current_category,  \* self.current_category
    current_task,      \* self.current_task
    frame,             \* the task frame with its radio buttons is on screen
    sel,               \* initials, selected_day, selected_month, selected_year, task_status
    pc,                \* position inside _save_to_excel
    rw,                \* locals of _save_to_excel: old_month, new_filename, wb
    saved,             \* <<>> or <<the document wb.save wrote>>
    log,               \* history: the passes of _save_to_excel in order
    chosen,            \* history: the status each task had when the user left it
    previous_count,    \* history: Previous presses so far
    progress           \* the progress indicator of the navigation frame

vars == << workbook, stem, json_exists, json_source, ui, data, current_sheet, current_category,
           current_task, frame, sel, pc, rw, saved, log, chosen, previous_count, progress >>

NoLocals == [old_month |-> <<>>, new_filename |-> <<>>, wb |-> <<>>, e |-> "none"]

Init ==
    /\ \/ workbook \in Workbooks /\ stem \in Stems
       \/ workbook \in MixedWorkbooks /\ stem \in ShortStems \cup YearStems
    /\ json_exists = FALSE
    /\ json_source = "none"
    /\ ui = "selector"
    /\ data = <<>>
    /\ current_sheet = 0
    /\ current_category = 0
    /\ current_task = 0
    /\ frame = FALSE
    /\ sel = [ initials |-> <<>>, selected_day |-> <<>>, selected_month |-> <<>>,
               selected_year |-> <<>>, task_status |-> None ]
    /\ pc = "idle"
    /\ rw = NoLocals
    /\ saved = <<>>
    /\ log = <<>>
    /\ chosen = <<>>
    /\ previous_count = 0
    /\ progress = [ shown |-> FALSE, cursor |-> <<0, 0, 0>>, total_tasks |-> 0,
                    current_task_num |-> 0 ]

\* ------------------------------------------------------------------------
\* Actions
\* ------------------------------------------------------------------------
\* a .json written by hand: the tree of the workbook with the row of every input
\* key of the first sheet replaced by 0 ("B0", "C0"), which no worksheet has
ReKey(sheet) ==
    [ sheet EXCEPT !.categories =
        [ c \in 1..Len(sheet.categories) |->
            [ sheet.categories[c] EXCEPT !.tasks =
                [ t \in 1..Len(sheet.categories[c].tasks) |->
                    [ sheet.categories[c].tasks[t] EXCEPT !.inputs =
                        [ i \in 1..Len(sheet.categories[c].tasks[t].inputs) |->
                            [ sheet.categories[c].tasks[t].inputs[i] EXCEPT !.key =
                                FilterAlpha(@) \o <<48>> ] ] ] ] ] ] ]

\* IMSSelector.select_template: extraction, save_to_json, TaskCompletionUI(json)
select_template ==
    /\ ui = "selector"
    /\ data' = process_workbook(workbook)
    /\ json_exists' = TRUE
    /\ json_source' = "extracted"
    /\ ui' = "details"
    /\ UNCHANGED << workbook, stem, current_sheet, current_category, current_task, frame,
                    sel, pc, rw, saved, log, chosen, previous_count, progress >>

\* TaskCompletionUI(json_path) on a .json that was edited by hand (explored for
\* the one-sheet workbooks without merged regions)
run_with_json ==
    /\ ui = "selector"
    /\ Len(workbook) = 1 /\ workbook[1].merged = {}
    /\ data' = [ process_workbook(workbook) EXCEPT ![1] = ReKey(@) ]
    /\ json_exists' = TRUE
    /\ json_source' = "hand"
    /\ ui' = "details"
    /\ UNCHANGED << workbook, stem, current_sheet, current_category, current_task, frame,
                    sel, pc, rw, saved, log, chosen, previous_count, progress >>

\* TaskCompletionUI._create_task_frame: a new StringVar(value="OK") when there
\* is a current task, nothing otherwise
_create_task_frame(s, d, cs, cc, ct) ==
    IF _get_current_task(d, cs, cc, ct) # <<>>
    THEN [s EXCEPT !.task_status = Str(<<79, 75>>)]
    ELSE s

\* TaskCompletionUI._validate_and_start with valid details
_validate_and_start ==
    /\ ui = "details"
    /\ \E d \in DetailsChoices :
       LET initials == d[1]  day == d[2]  month == d[3]  year == d[4]
       IN
         /\ Len(initials) >= 2
         /\ sel' = _create_task_frame(
                      [ sel EXCEPT !.initials = initials, !.selected_day = day,
                                   !.selected_month = month, !.selected_year = year ],
                      data, current_sheet, current_category, current_task)
    /\ frame' = (_get_current_task(data, current_sheet, current_category, current_task) # <<>>)
    /\ progress' = _create_navigation_frame(data, current_sheet, current_category, current_task)
    /\ ui' = "tasks"
    /\ UNCHANGED << workbook, stem, json_exists, json_source, data, current_sheet, current_category,
                    current_task, pc, rw, saved, log, chosen, previous_count >>

\* a click on one of the two radio buttons of the task frame
SelectStatus ==
    /\ ui = "tasks" /\ pc = "idle" /\ frame
    /\ \E v \in StatusChoices :
         /\ sel.task_status # Str(v)
         /\ sel' = [sel EXCEPT !.task_status = Str(v)]
    /\ UNCHANGED << workbook, stem, json_exists, json_source, ui, data, current_sheet, current_category,
                    current_task, frame, pc, rw, saved, log, chosen, previous_count, progress >>

\* the status the user leaves on the task _save_current_task stores
Leave(ch, d, cs, cc, ct, s) ==
    LET cur == _get_current_task(d, cs, cc, ct)
    IN  IF cur = <<>> \/ s.task_status.isNone THEN ch
        ELSE IF IsCommentTask(cur[1]) THEN ch
        ELSE (<<cs, cc, ct>> :> s.task_status.s) @@ ch

\* TaskCompletionUI._next_task; on the last task, and when the loop runs off
\* the last sheet, _complete_checklist saves the task and enters _save_to_excel
_next_task ==
    /\ ui = "tasks" /\ pc = "idle"
    /\ LET last == _is_last_task(data, current_sheet, current_category, current_task)
           kept == _save_current_task(data, current_sheet, current_category, current_task, sel)
           adv  == Advance(data, current_sheet, current_category, current_task)
       IN  CASE last = "error" ->
                  UNCHANGED << data, current_sheet, current_category, current_task,
                               frame, sel, pc, chosen, progress >>
             [] last = "yes" ->
                  /\ data' = kept
                  /\ chosen' = Leave(chosen, data, current_sheet, current_category,
                                     current_task, sel)
                  /\ pc' = "parse"
                  /\ UNCHANGED << current_sheet, current_category, current_task, frame, sel,
                                  progress >>
             [] OTHER ->
                  /\ current_sheet' = adv.cs
                  /\ current_category' = adv.cc
                  /\ current_task' = adv.ct
                  /\ chosen' = Leave(chosen, data, current_sheet, current_category,
                                     current_task, sel)
                  /\ data' = IF adv.kind = "complete"
                             THEN _save_current_task(kept, adv.cs, adv.cc, adv.ct, sel)
                             ELSE kept
                  /\ sel' = IF adv.kind = "show"
                            THEN _create_task_frame(sel, kept, adv.cs, adv.cc, adv.ct)
                            ELSE sel
                  /\ frame' = IF adv.kind = "show" THEN TRUE ELSE frame
                  /\ progress' = IF adv.kind = "show"
                                 THEN _create_navigation_frame(kept, adv.cs, adv.cc, adv.ct)
                                 ELSE progress
                  /\ pc' = IF adv.kind = "complete" THEN "parse" ELSE pc
    /\ UNCHANGED << workbook, stem, json_exists, json_source, ui, rw, saved, log, previous_count >>

\* TaskCompletionUI._previous_task
_previous_task ==
    /\ ui = "tasks" /\ pc = "idle"
    /\ previous_count < MaxPrevious
    /\ ~_is_first_task(current_sheet, current_category, current_task)
    /\ LET back == Retreat(data, current_sheet, current_category, current_task)
       IN  /\ current_sheet' = back.cs
           /\ current_category' = back.cc
           /\ current_task' = back.ct
           /\ sel' = IF back.kind = "show"
                     THEN _create_task_frame(sel, data, back.cs, back.cc, back.ct)
                     ELSE sel
           /\ frame' = IF back.kind = "show"
                       THEN _get_current_task(data, back.cs, back.cc, back.ct) # <<>>
                       ELSE frame
           /\ progress' = IF back.kind = "show"
                          THEN _create_navigation_frame(data, back.cs, back.cc, back.ct)
                          ELSE progress
    /\ previous_count' = previous_count + 1
    /\ UNCHANGED << workbook, stem, json_exists, json_source, ui, data, pc, rw, saved, log, chosen >>

\* ".xlsx"
XlsxSuffix == <<46, 120, 108, 115, 120>>

\* the file name with the month as it was selected, without .upper()
NewFilenameAsSelected(base_name, s) ==
    base_name \o <<32>> \o s.selected_day \o <<32>> \o s.selected_month \o <<32>> \o
    From2(s.selected_year) \o XlsxSuffix

\* f"{base_name} {day} {month.upper()} {year[2:]}.xlsx"
NewFilename(base_name, s) ==
    base_name \o <<32>> \o s.selected_day \o <<32>> \o upper(s.selected_month) \o <<32>> \o
    From2(s.selected_year) \o XlsxSuffix

\* _save_to_excel, lines 534-553: the source .xlsx is looked up (it may have been
\* moved since the extraction: FileNotFoundError), the file name is parsed,
\* the workbook loaded and the mode decided; filename_parts[-2] raises
\* IndexError on a stem of fewer than two tokens.  Every exception ends in the
\* handler of line 573, and _complete_checklist goes on to root.destroy()
SaveParse ==
    /\ pc = "parse"
    /\ LET filename_parts == split(stem)
       IN  \E xlsx_exists \in BOOLEAN :
           IF ~xlsx_exists
           THEN /\ pc' = "failed"
                /\ ui' = "closed"
                /\ rw' = [rw EXCEPT !.e = "FileNotFoundError"]
           ELSE IF Len(filename_parts) < 2
           THEN /\ pc' = "failed"
                /\ ui' = "closed"
                /\ rw' = [rw EXCEPT !.e = "IndexError"]
           ELSE LET base_name == join(DropLast3(filename_parts))
                    old_month == filename_parts[Len(filename_parts) - 1]
                IN  /\ rw' = [ old_month    |-> old_month,
                               new_filename |-> NewFilename(base_name, sel),
                               wb           |-> [i \in 1..Len(workbook) |-> workbook[i].cells],
                               e            |-> "none" ]
                    /\ pc' = IF MonthChanged(old_month, sel.selected_month)
                             THEN "reset" ELSE "write"
                    /\ UNCHANGED ui
    /\ UNCHANGED << workbook, stem, json_exists, json_source, data, current_sheet, current_category,
                    current_task, frame, sel, saved, log, chosen, previous_count, progress >>

\* _save_to_excel, line 553: the reset pass
SaveReset ==
    /\ pc = "reset"
    /\ LET r == _clear_previous_month_data(rw.wb, workbook, data)
       IN  IF r.error
           THEN /\ pc' = "failed"
                /\ ui' = "closed"
                /\ rw' = [rw EXCEPT !.e = "reset pass"]
                /\ UNCHANGED log
           ELSE /\ rw' = [rw EXCEPT !.wb = r.cells]
                /\ log' = Append(log, [op |-> "reset", sheet |-> 0, ws |-> 0, writes |-> <<>>])
                /\ pc' = "write"
                /\ UNCHANGED ui
    /\ UNCHANGED << workbook, stem, json_exists, json_source, data, current_sheet, current_category,
                    current_task, frame, sel, saved, chosen, previous_count, progress >>

\* _save_to_excel, lines 556-565: the write pass over the sheets of the tree
SaveWrite ==
    /\ pc = "write"
    /\ LET p == WritePass([cells |-> rw.wb, error |-> FALSE, log |-> log],
                          workbook, data, 1, rw.old_month, sel)
       IN  IF p.error
           THEN /\ pc' = "failed"
                /\ ui' = "closed"
                /\ rw' = [rw EXCEPT !.e = "write pass"]
                /\ UNCHANGED log
           ELSE /\ rw' = [rw EXCEPT !.wb = p.cells]
                /\ log' = p.log
                /\ pc' = "save"
                /\ UNCHANGED ui
    /\ UNCHANGED << workbook, stem, json_exists, json_source, data, current_sheet, current_category,
                    current_task, frame, sel, saved, chosen, previous_count, progress >>

\* an unlink that runs whether wb.save raised or not
UnlinkAlways(save_ok, exists) == FALSE

\* lines 568-569: self.json_path.unlink() follows wb.save in the try block, so
\* it runs only when wb.save returned; the result is whether the .json exists
UnlinkAfterSave(save_ok, exists) == IF save_ok THEN FALSE ELSE exists

\* _save_to_excel, lines 568-575, and root.destroy(): wb.save writes the
\* document or raises OSError (disk full, target open elsewhere), then
\* json_path.unlink
SaveFinish ==
    /\ pc = "save"
    /\ \E save_ok \in BOOLEAN :
         /\ saved' = IF save_ok THEN << [name |-> rw.new_filename, cells |-> rw.wb] >>
                     ELSE saved
         /\ json_exists' = UnlinkAfterSave(save_ok, json_exists)
         /\ pc' = IF save_ok THEN "saved" ELSE "failed"
         /\ rw' = IF save_ok THEN rw ELSE [rw EXCEPT !.e = "OSError"]
    /\ ui' = "closed"
    /\ UNCHANGED << workbook, stem, json_source, data, current_sheet, current_category, current_task,
                    frame, sel, log, chosen, previous_count, progress >>

Next ==
    \/ select_template
    \/ run_with_json
    \/ _validate_and_start
    \/ SelectStatus
    \/ _next_task
    \/ _previous_task
    \/ SaveParse
    \/ SaveReset
    \/ SaveWrite
    \/ SaveFinish

Spec == Init /\ [][Next]_vars

\* ------------------------------------------------------------------------
\* Properties
\* ------------------------------------------------------------------------
\* the period label of the existing file name: the second-to-last token of the stem
OldLabel == LET parts == split(stem) IN parts[Len(parts) - 1]

\* _save_to_excel has decided the mode and not yet written
Decided == pc = "reset" \/ (pc = "write" /\ log = <<>>)

ResetEntries == { i \in DOMAIN log : log[i].op = "reset" }
WriteNewEntries == { i \in DOMAIN log : log[i].op = "write_new" }
WriteSameEntries == { i \in DOMAIN log : log[i].op = "write_same" }

\* the rewrite is past the mode decision and runs in same-period mode
InSamePeriodMode == pc \in {"write", "save", "saved"} /\ ResetEntries = {}

\* C1: the rewrite selects same-period mode exactly when the label of the file
\* name and the selected label are equal after case normalization of both, and
\* new-period mode otherwise.
C1_ModeByNormalizedLabels ==
    Decided =>
        /\ (pc = "write") <=> (upper(OldLabel) = upper(sel.selected_month))
        /\ (pc = "reset") <=> (upper(OldLabel) # upper(sel.selected_month))

\* C2: the two write strategies exclude each other; the reset pass has run
\* exactly when the sheets are written with the new-period strategy, every sheet
\* of the tree with the same strategy; the reset pass precedes every write; and
\* in same-period mode no cell that held a value is left without one.
C2_StrategiesTiedToReset ==
    /\ WriteNewEntries = {} \/ WriteSameEntries = {}
    /\ WriteNewEntries # {} => ResetEntries # {}
    /\ WriteSameEntries # {} => ResetEntries = {}
    /\ \A i \in ResetEntries : \A j \in WriteNewEntries \cup WriteSameEntries : i < j
    /\ pc \in {"save", "saved"} =>
          /\ { log[i].sheet : i \in WriteNewEntries \cup WriteSameEntries } = DOMAIN data
          /\ ResetEntries # {} <=> WriteNewEntries # {}
          /\ ResetEntries = {} <=> WriteSameEntries # {}
    /\ InSamePeriodMode =>
          \A i \in DOMAIN workbook : \A rc \in DOMAIN workbook[i].cells :
              Truthy(workbook[i].cells[rc]) => Truthy(rw.wb[i][rc])

\* a new-period rewrite of a two-sheet workbook that cleared a filled cell and
\* then wrote both sheets
C2_Witness ==
    /\ pc = "saved"
    /\ Len(log) = 3
    /\ log[1].op = "reset" /\ log[2].op = "write_new" /\ log[3].op = "write_new"
    /\ \E rc \in DOMAIN workbook[2].cells :
          Truthy(workbook[2].cells[rc]) /\ ~Truthy(saved[1].cells[2][rc])

\* the tasks of sheet number n of the tree, in write order
SheetTasks(n) == TasksOf(data[n].categories)

\* the entries of the log that wrote a sheet
WriteEntries == WriteNewEntries \cup WriteSameEntries

\* the input coordinates of a task whose cell, behind the merged-cell resolver,
\* holds nothing
EmptyKeys(cells, merged, task) ==
    { k \in Range(Keys(task)) :
        LET cell == _get_unmerged_cell(merged, k)
        IN  cell.ok /\ ~Truthy(cells[<<cell.row, cell.col>>]) }

\* the two smallest str of a set of at least two
SmallestTwo(S) ==
    LET a == CHOOSE x \in S : \A y \in S \ {x} : StrLess(x, y)
        b == CHOOSE x \in S \ {a} : \A y \in S \ {a, x} : StrLess(x, y)
    IN  <<a, b>>

\* the (row, column) a coordinate str names, for the coordinates of the grid
OnGrid(target) == \E rc \in Rows \X Cols : Coordinate(rc[2], rc[1]) = target
CellOf(target) == CHOOSE rc \in Rows \X Cols : Coordinate(rc[2], rc[1]) = target

\* the written date string and status of the session
WrittenDate ==
    Str(DateString(sel.initials, sel.selected_day, sel.selected_month, sel.selected_year))
WrittenStatus == Str(upper(sel.task_status.s))

\* C3: a same-period rewrite of an extracted workbook changes no cell outside
\* the discovered input columns and rows >= 9.
C3_RoundTripFrame ==
    (pc = "saved" /\ json_source = "extracted" /\ ResetEntries = {}) =>
        \A i \in DOMAIN workbook : \A rc \in DOMAIN workbook[i].cells :
            saved[1].cells[i][rc] # workbook[i].cells[rc] =>
                /\ rc[2] \in Range(_find_input_columns(workbook[i]))
                /\ rc[1] >= FIRST_DATA_ROW

\* C4: no pass of a rewrite changes a cell of rows 1-8 or of column A.
C4_HeaderRowsAndColumnAUntouched ==
    pc \in {"write", "save", "saved"} =>
        \A i \in DOMAIN workbook : \A rc \in DOMAIN workbook[i].cells :
            (rc[1] < FIRST_DATA_ROW \/ rc[2] = 1) => rw.wb[i][rc] = workbook[i].cells[rc]

\* C5: in same-period mode, for a task with at least two input coordinates whose
\* resolved cell is empty, the allocator returns the first two of them in
\* ascending order, and none whose resolved cell holds a value.  (The cells
\* are those before the write pass: no task's targets resolve into the row of
\* another task.)
C5_FirstTwoEmptyInOrder ==
    \A i \in WriteSameEntries : \A j \in DOMAIN log[i].writes :
        LET e      == log[i].writes[j]
            sheet  == workbook[log[i].ws]
            empty  == EmptyKeys(sheet.cells, sheet.merged, SheetTasks(log[i].sheet)[e.task])
        IN  Cardinality(empty) >= 2 =>
                /\ e.targets = SmallestTwo(empty)
                /\ \A k \in DOMAIN e.targets : e.targets[k] \in empty

\* a same-period rewrite whose allocator skipped a filled first slot and
\* returned two empty coordinates, one of them inside a merged region
C5_Witness ==
    /\ pc = "saved"
    /\ \E i \in WriteSameEntries : \E j \in DOMAIN log[i].writes :
        LET e      == log[i].writes[j]
            sheet  == workbook[log[i].ws]
            task   == SheetTasks(log[i].sheet)[e.task]
        IN  /\ Cardinality(EmptyKeys(sheet.cells, sheet.merged, task)) >= 2
            /\ Len(e.targets) = 2
            /\ e.targets # First2(SortedKeys(task))
            /\ e.resolved[1] = e.resolved[2]

\* C6: in same-period mode, for a task with fewer than two empty input
\* coordinates the allocator returns the task's first two declared coordinates
\* and the task is written.
C6_FallbackToFirstTwo ==
    \A i \in WriteSameEntries : \A j \in DOMAIN log[i].writes :
        LET e      == log[i].writes[j]
            sheet  == workbook[log[i].ws]
            task   == SheetTasks(log[i].sheet)[e.task]
        IN  Cardinality(EmptyKeys(sheet.cells, sheet.merged, task)) < 2 =>
                /\ e.targets = First2(Keys(task))
                /\ Len(e.resolved) = 2

\* C7: the resolver maps every coordinate of a merged region to the region's
\* top-left cell and every other coordinate to itself, and a write aimed at a
\* coordinate of a merged region lands on the region's top-left cell.
C7_ResolverReturnsAnchor ==
    /\ pc = "write" =>
          \A i \in DOMAIN workbook : \A rc \in Rows \X Cols :
              LET hits == { mr \in workbook[i].merged : InRange(mr, rc[1], rc[2]) }
                  cell == _get_unmerged_cell(workbook[i].merged, Coordinate(rc[2], rc[1]))
              IN  IF hits = {} THEN cell = CellAt(rc[1], rc[2])
                  ELSE \E mr \in hits : cell = CellAt(mr.min_row, mr.min_col)
    /\ pc = "save" =>
          \A i \in WriteEntries : \A j \in DOMAIN log[i].writes :
              \A k \in DOMAIN log[i].writes[j].resolved :
                  LET e == log[i].writes[j]
                  IN  OnGrid(e.targets[k]) =>
                        \A mr \in workbook[log[i].ws].merged :
                            InRange(mr, CellOf(e.targets[k])[1], CellOf(e.targets[k])[2]) =>
                               /\ e.resolved[k] = CellAt(mr.min_row, mr.min_col)
                               /\ rw.wb[log[i].ws][<<mr.min_row, mr.min_col>>]
                                     \in {WrittenDate, WrittenStatus}

\* a write pass that aimed a write at the second cell of a merged region and
\* left the value on the region's top-left cell
C7_Witness ==
    /\ pc = "save"
    /\ \E i \in WriteEntries : \E j \in DOMAIN log[i].writes :
        \E k \in DOMAIN log[i].writes[j].resolved :
            LET e == log[i].writes[j]
            IN  /\ OnGrid(e.targets[k])
                /\ e.resolved[k].ok
                /\ <<e.resolved[k].row, e.resolved[k].col>> # CellOf(e.targets[k])
                /\ rw.wb[log[i].ws][<<e.resolved[k].row, e.resolved[k].col>>]
                      \in {WrittenDate, WrittenStatus}

\* C8: when a write target cannot be resolved to a cell, the rewrite aborts and
\* no document is saved.
C8_UnresolvedTargetAborts ==
    (\E i \in WriteEntries : \E j \in DOMAIN log[i].writes :
        \E k \in DOMAIN log[i].writes[j].resolved : ~log[i].writes[j].resolved[k].ok)
    => (pc # "saved" /\ saved = <<>>)

\* C9: after a successful write pass every non-comment task with at least two
\* input coordinates has the date string in the cell of its resolved first
\* target and the status in the cell of its resolved second target.
C9_TargetsHoldDateAndStatus ==
    (pc = "save" /\ json_source = "extracted") =>
        \A i \in WriteEntries : \A t \in DOMAIN SheetTasks(log[i].sheet) :
            LET task == SheetTasks(log[i].sheet)[t]
            IN  (~IsCommentTask(task) /\ Len(task.inputs) >= 2) =>
                  \E j \in DOMAIN log[i].writes :
                      LET e == log[i].writes[j]
                      IN  /\ e.task = t
                          /\ Len(e.resolved) = 2
                          /\ e.resolved[1].ok /\ e.resolved[2].ok
                          /\ rw.wb[log[i].ws][<<e.resolved[1].row, e.resolved[1].col>>]
                                = WrittenDate
                          /\ rw.wb[log[i].ws][<<e.resolved[2].row, e.resolved[2].col>>]
                                = WrittenStatus

\* the 0-based (category, task) position of task number n of a sheet
RECURSIVE PosOf(_, _, _)
PosOf(categories, c, n) ==
    IF n <= Len(categories[c].tasks) THEN <<c - 1, n - 1>>
    ELSE PosOf(categories, c + 1, n - Len(categories[c].tasks))

\* C10: the status cell of every written task holds the status the user
\* selected for that task.
C10_StatusIsOwnSelection ==
    pc = "save" =>
        \A i \in WriteEntries : \A j \in DOMAIN log[i].writes :
            LET e   == log[i].writes[j]
                pos == <<log[i].sheet - 1>> \o PosOf(data[log[i].sheet].categories, 1, e.task)
            IN  (Len(e.resolved) = 2 /\ e.resolved[2].ok /\ pos \in DOMAIN chosen) =>
                    rw.wb[log[i].ws][<<e.resolved[2].row, e.resolved[2].col>>]
                        = Str(upper(chosen[pos]))

\* the tasks of a sheet of the tree whose name, trimmed and in lower case, is "comments:"
CommentTasks(n) ==
    { t \in DOMAIN SheetTasks(n) : strip(lower(SheetTasks(n)[t].name)) = COMMENTS }

\* C11: in both modes the write pass obtains no targets for a comment task and
\* writes nothing into the cells of its input coordinates.
C11_CommentTasksSkipped ==
    pc = "save" =>
        \A i \in WriteEntries : \A t \in CommentTasks(log[i].sheet) :
            /\ \A j \in DOMAIN log[i].writes : log[i].writes[j].task # t
            /\ \A k \in Range(Keys(SheetTasks(log[i].sheet)[t])) :
                  OnGrid(k) =>
                      /\ rw.wb[log[i].ws][CellOf(k)] \notin {WrittenDate, WrittenStatus}
                      /\ rw.wb[log[i].ws][CellOf(k)] \in {None, workbook[log[i].ws].cells[CellOf(k)]}

\* a write pass over a sheet that wrote a task and left alone a comment task
\* with two empty input cells
C11_Witness ==
    /\ pc = "save"
    /\ \E i \in WriteEntries : \E t \in CommentTasks(log[i].sheet) :
          /\ \E j \in DOMAIN log[i].writes : Len(log[i].writes[j].resolved) = 2
          /\ Cardinality({ k \in Range(Keys(SheetTasks(log[i].sheet)[t])) :
                             OnGrid(k) /\ ~Truthy(rw.wb[log[i].ws][CellOf(k)]) }) >= 2

\* the positions (sheet, category, task), 0-based, of the tasks of the tree
TreePositions ==
    UNION { UNION { { <<s - 1, c - 1, t - 1>> : t \in DOMAIN data[s].categories[c].tasks } :
                    c \in DOMAIN data[s].categories } : s \in DOMAIN data }

\* those whose task is not a comment task
NonCommentPositions ==
    { p \in TreePositions :
        strip(lower(data[p[1] + 1].categories[p[2] + 1].tasks[p[3] + 1].name)) # COMMENTS }

\* p is at or before q in sheet, category, task order
AtOrBefore(p, q) ==
    \/ p[1] < q[1]
    \/ p[1] = q[1] /\ p[2] < q[2]
    \/ p[1] = q[1] /\ p[2] = q[2] /\ p[3] <= q[3]

\* C12: the total of the progress indicator is the number of tasks of the tree,
\* over all sheets and categories, that are not comment tasks.
C12_TotalCountsNonCommentTasks ==
    progress.shown => progress.total_tasks = Cardinality(NonCommentPositions)

\* a progress indicator over a tree with a comment task and other tasks
C12_Witness ==
    /\ progress.shown
    /\ progress.total_tasks >= 1
    /\ progress.total_tasks < Cardinality(TreePositions)

FirstTaskColumns ==
    IF data = <<>> \/ data[1].categories = <<>> \/ data[1].categories[1].tasks = <<>>
    THEN {}
    ELSE { CellOf(k)[2] : k \in { x \in Range(Keys(data[1].categories[1].tasks[1])) :
                                       OnGrid(x) } } \ {1}

\* the reset pass has run and the write pass has not started
AfterReset == pc = "write" /\ ResetEntries # {}

\* C14: after the reset pass every non-merged cell of rows 9 to the last row is
\* empty, in every worksheet, in each input column of the first task of the
\* first category of the first sheet.
C14_ResetClearsInputColumns ==
    AfterReset =>
        \A i \in DOMAIN workbook : \A rc \in DOMAIN workbook[i].cells :
            ( /\ rc[2] \in FirstTaskColumns
              /\ rc[1] >= FIRST_DATA_ROW
              /\ ~IsMergedCell(workbook[i].merged, rc[1], rc[2]) )
            => ~Truthy(rw.wb[i][rc])

\* C15: in new-period mode the write pass targets the first two coordinates of
\* every non-comment task in the order extraction declared them.
C15_NewPeriodTargetsFirstTwoDeclared ==
    json_source = "extracted" =>
        \A i \in WriteNewEntries : \A j \in DOMAIN log[i].writes :
            LET e == log[i].writes[j]
            IN  e.targets = First2(Keys(SheetTasks(log[i].sheet)[e.task]))

\* "Fire Panel 12 JAN 24"
FirePanelJan == <<70, 105, 114, 101, 32, 80, 97, 110, 101, 108, 32, 49, 50, 32, 74, 65, 78, 32, 50, 52>>

\* s without its last n characters, and the last n characters of s
DropTail(s, n) == SubSeq(s, 1, Len(s) - n)
LastChars(s, n) == SubSeq(s, Len(s) - n + 1, Len(s))

\* C16: the saved document is named "{base_name} {day} {PERIOD} {yy}.xlsx": the
\* tokens of the source stem without the last three, then the selected day,
\* the selected period in upper case and the last two digits of the selected
\* year; "Fire Panel 12 JAN 24" with (15, Jan, 2024) gives
\* "Fire Panel 15 JAN 24.xlsx".
C16_SavedFilename ==
    (pc = "saved" /\ Len(split(stem)) >= 3) =>
        LET name == saved[1].name
        IN  /\ Len(name) > 5
            /\ LastChars(name, 5) = <<46, 120, 108, 115, 120>>
            /\ split(DropTail(name, 5)) =
                  SubSeq(split(stem), 1, Len(split(stem)) - 3)
                  \o << sel.selected_day, upper(sel.selected_month),
                        LastChars(sel.selected_year, 2) >>
            /\ ( /\ stem = FirePanelJan
                 /\ sel.selected_day = <<49, 53>>
                 /\ upper(sel.selected_month) = <<74, 65, 78>>
                 /\ sel.selected_year = <<50, 48, 50, 52>> )
               => name = <<70, 105, 114, 101, 32, 80, 97, 110, 101, 108, 32, 49, 53, 32, 74, 65, 78, 32, 50, 52, 46, 120, 108, 115, 120>>

\* "Fire Panel 12 JAN 24.xlsx" saved after the selection (15, Jan, 2024)
C16_Witness ==
    /\ pc = "saved"
    /\ stem = FirePanelJan
    /\ sel.selected_day = <<49, 53>>
    /\ sel.selected_month = <<74, 97, 110>>
    /\ saved[1].name = <<70, 105, 114, 101, 32, 80, 97, 110, 101, 108, 32, 49, 53, 32, 74, 65, 78, 32, 50, 52, 46, 120, 108, 115, 120>>

\* C17: "Fire Panel 12 JAN 24" with the selection (03, Feb, 2024) is rewritten
\* in new-period mode and saved as "Fire Panel 3 FEB 24.xlsx".
C17_ScenarioFebruary ==
    ( /\ pc = "saved"
      /\ stem = FirePanelJan
      /\ sel.selected_day = <<48, 51>>
      /\ sel.selected_month = <<70, 101, 98>>
      /\ sel.selected_year = <<50, 48, 50, 52>> )
    => /\ ResetEntries # {}
       /\ WriteNewEntries # {}
       /\ saved[1].name = <<70, 105, 114, 101, 32, 80, 97, 110, 101, 108, 32, 51, 32, 70, 69, 66, 32, 50, 52, 46, 120, 108, 115, 120>>

\* C18: with a stem of fewer than three tokens the write-back fails before the
\* mode is decided: no pass runs and no document is saved.
C18_ShortStemFails ==
    Len(split(stem)) < 3 =>
        /\ pc \in {"idle", "parse", "failed"}
        /\ log = <<>>
        /\ saved = <<>>

\* C19: the .json is deleted only once the workbook is saved, and a rewrite
\* that failed at any step has saved no document (so the source document is
\* as it was) and has left the .json in place.
C19_JsonDeletedOnlyAfterSave ==
    /\ (json_source # "none" /\ ~json_exists) => (pc = "saved" /\ saved # <<>>)
    /\ pc = "failed" => (json_exists /\ (rw.e # "OSError" => saved = <<>>))
    /\ pc \in {"parse", "reset", "write", "save"} => (saved = <<>> /\ json_exists)

\* a rewrite that changed cells of the loaded workbook and then failed to save
C19_Witness ==
    /\ pc = "failed"
    /\ rw.e = "OSError"
    /\ \E i \in DOMAIN workbook : rw.wb[i] # workbook[i].cells
    /\ json_exists

\* the rows of a worksheet by the class of their lead cell, in the priority
\* order empty, category colour and bold, bold, not bold
LeadFilled(ws, r) == Truthy(ws.cells[<<r, 1>>])
CategoryHeaderRows(ws) ==
    { r \in Rows : LeadFilled(ws, r) /\ ws.fill[r] = CATEGORY_COLOR /\ ws.bold[r] }
\* the row of the category that is active at row r; 0 when none is
ActiveCategory(ws, r) ==
    LET before == { c \in CategoryHeaderRows(ws) : c < r }
    IN  IF before = {} THEN 0 ELSE CHOOSE c \in before : \A x \in before : x <= c
TaskHeaderRows(ws) ==
    { r \in Rows : /\ LeadFilled(ws, r) /\ r \notin CategoryHeaderRows(ws) /\ ws.bold[r]
                   /\ ActiveCategory(ws, r) # 0 }
\* the row of the last task of the active category above row r; 0 when none is
ActiveTask(ws, r) ==
    LET before == { t \in TaskHeaderRows(ws) : ActiveCategory(ws, r) < t /\ t < r }
    IN  IF before = {} THEN 0 ELSE CHOOSE t \in before : \A x \in before : x <= t
DescriptionLineRows(ws) ==
    { r \in Rows : /\ LeadFilled(ws, r) /\ ~ws.bold[r]
                   /\ ActiveCategory(ws, r) # 0 /\ ActiveTask(ws, r) # 0 }
\* the rows that leave no record
IgnoredRows(ws) ==
    Rows \ (CategoryHeaderRows(ws) \cup TaskHeaderRows(ws) \cup DescriptionLineRows(ws))

\* the trimmed text of the lead cell of a row
LeadName(ws, r) == strip(ws.cells[<<r, 1>>].s)

\* the texts of a sequence from its first text that is not empty
RECURSIVE FromFirstText(_)
FromFirstText(texts) ==
    IF texts = <<>> THEN <<>>
    ELSE IF Head(texts) = <<>> THEN FromFirstText(Tail(texts))
    ELSE texts

\* the trimmed lead-cell texts, in row order, of the description lines between
\* the task header of row t and the next task or category header
DescriptionTexts(ws, t) ==
    LET drs == SortedInts({ r \in DescriptionLineRows(ws) : ActiveTask(ws, r) = t })
    IN  [ x \in DOMAIN drs |-> LeadName(ws, drs[x]) ]

\* the row of the task header that became task t of category k of the tree
TaskRow(ws, k, t) ==
    LET cats == SortedInts(CategoryHeaderRows(ws))
    IN  SortedInts({ r \in TaskHeaderRows(ws) : ActiveCategory(ws, r) = cats[k] })[t]

\* C20: the tree extraction hands to the task interface has, for every worksheet, one category per row whose lead
\* cell is filled, in the category colour and bold; under it one task per
\* later bold row up to the next category; and as description of a task the
\* texts of the non-bold rows between it and the next task or category. Empty
\* rows, and task or description rows met while no category (or no task) is
\* active, leave no record.
C20_RowsClassifiedInPriorityOrder ==
    (json_source = "extracted" /\ ui = "details") =>
        \A i \in DOMAIN workbook :
            LET ws   == workbook[i]
                cats == SortedInts(CategoryHeaderRows(ws))
            IN  /\ Len(data[i].categories) = Len(cats)
                /\ \A k \in DOMAIN cats :
                      LET category == data[i].categories[k]
                          trs == SortedInts({ t \in TaskHeaderRows(ws) :
                                                ActiveCategory(ws, t) = cats[k] })
                      IN  /\ category.name = LeadName(ws, cats[k])
                          /\ Len(category.tasks) = Len(trs)
                          /\ \A t \in DOMAIN trs :
                                LET drs == SortedInts({ r \in DescriptionLineRows(ws) :
                                                          ActiveTask(ws, r) = trs[t] })
                                IN  /\ category.tasks[t].name = LeadName(ws, trs[t])
                                    /\ category.tasks[t].description =
                                          join(FromFirstText([ x \in DOMAIN drs |->
                                                                 LeadName(ws, drs[x]) ]))

\* an extracted worksheet with a bold row and a plain row above its first
\* category, a row in the category colour that is not bold, and a described task
C20_Witness ==
    /\ json_source = "extracted" /\ ui = "details"
    /\ \E r \in IgnoredRows(workbook[1]) :
          LeadFilled(workbook[1], r) /\ workbook[1].bold[r]
    /\ \E r \in IgnoredRows(workbook[1]) :
          LeadFilled(workbook[1], r) /\ ~workbook[1].bold[r]
          /\ workbook[1].fill[r] = CATEGORY_COLOR
    /\ \E r \in DescriptionLineRows(workbook[1]) : workbook[1].fill[r] = CATEGORY_COLOR
    /\ Len(data[1].categories) = 1
    /\ Len(data[1].categories[1].tasks) = 2
    /\ data[1].categories[1].tasks[2].description # <<>>

\* the columns other than column 1 that hold a recognized label, exactly as
\* written, in a cell of rows 1 to 10
LabelColumns(ws) ==
    { c \in Cols \ {1} :
        \E r \in Rows : r <= 10 /\ ws.cells[<<r, c>>] \in { Str(h) : h \in INPUT_HEADERS } }

\* C21: the input coordinates of every extracted task are exactly the column
\* letter and task row of every column other than column 1 that holds a
\* recognized label in rows 1 to 10.
C21_TaskCoordinatesAreLabelColumns ==
    (json_source = "extracted" /\ ui = "details") =>
        \A i \in DOMAIN workbook :
            LET ws   == workbook[i]
                cats == SortedInts(CategoryHeaderRows(ws))
            IN  \A k \in DOMAIN data[i].categories :
                    LET trs == SortedInts({ t \in TaskHeaderRows(ws) :
                                              ActiveCategory(ws, t) = cats[k] })
                    IN  \A t \in DOMAIN data[i].categories[k].tasks :
                          /\ Range(Keys(data[i].categories[k].tasks[t])) =
                                { Coordinate(c, trs[t]) : c \in LabelColumns(ws) }
                          /\ Len(data[i].categories[k].tasks[t].inputs) =
                                Cardinality(LabelColumns(ws))

\* an extracted worksheet with a label in column A, a label in another case
\* and a label below row 10, whose tasks have the coordinates of B and C only
C21_Witness ==
    /\ json_source = "extracted" /\ ui = "details"
    /\ workbook[1].cells[<<5, 1>>] = HeaderText(3)
    /\ workbook[1].cells[<<11, 4>>] = HeaderText(3)
    /\ ~Truthy(workbook[1].cells[<<10, 4>>])
    /\ data[1].categories # <<>>
    /\ data[1].categories[1].tasks # <<>>
    /\ Len(data[1].categories[1].tasks[1].inputs) = 2

\* C22 as stated: the description of every task is the trimmed lead-cell
\* texts of all its description lines, joined by single spaces in row order.
C22_DescriptionJoinsEveryLine ==
    (json_source = "extracted" /\ ui = "details") =>
        \A i \in DOMAIN data : \A k \in DOMAIN data[i].categories :
            \A t \in DOMAIN data[i].categories[k].tasks :
                data[i].categories[k].tasks[t].description =
                    join(DescriptionTexts(workbook[i], TaskRow(workbook[i], k, t)))

\* C22: the description of every task is the trimmed lead-cell texts, joined
\* by single spaces in row order, of the description lines between its header
\* and the next task or category header, counted from the first line whose
\* trimmed text is not empty; it is empty when there is no such line, and no
\* line is attached to a task of an earlier category or to a later task.
C22_DescriptionJoinsFromFirstText ==
    (json_source = "extracted" /\ ui = "details") =>
        \A i \in DOMAIN data : \A k \in DOMAIN data[i].categories :
            \A t \in DOMAIN data[i].categories[k].tasks :
                data[i].categories[k].tasks[t].description =
                    join(FromFirstText(DescriptionTexts(workbook[i], TaskRow(workbook[i], k, t))))

\* an extracted worksheet of two categories whose first task has a description
\* line of two spaces and then one with text, whose second task has none, and
\* whose second category has a plain row right under its header that is
\* attached to nothing
C22_Witness ==
    /\ json_source = "extracted" /\ ui = "details"
    /\ Len(data[1].categories) = 2
    /\ Len(data[1].categories[1].tasks) = 2
    /\ Len(DescriptionTexts(workbook[1], 3)) = 2
    /\ LeadName(workbook[1], 4) = <<>>
    /\ LeadName(workbook[1], 6) # <<>>
    /\ data[1].categories[1].tasks[1].description = LeadName(workbook[1], 6)
    /\ data[1].categories[1].tasks[2].description = <<>>
    /\ 9 \in IgnoredRows(workbook[1]) /\ LeadFilled(workbook[1], 9)
    /\ data[1].categories[2].tasks[1].description = LeadName(workbook[1], 11)

\* ------------------------------------------------------------------------
\* Successive sessions: the program is started again on the document the
\* previous session saved
\* ------------------------------------------------------------------------
\* sessions explored on one document
MaxSessions == 2

\* the usual lead column with input columns B..E: nothing filled, B and C
\* filled, or C and D filled
SessionWorkbooks ==
    { << MkSheet(UsualLead, 2..5, filled, {}) >> : filled \in { {}, {2, 3}, {3, 4} } }

\* "Fire Panel 12 JAN 24", "Fire Panel 12 Jan 24"
SessionStems == { s \in Stems : upper(s) = upper(FirePanelJan) }

\* Path.stem: the name without its last suffix
PathStem(name) ==
    LET dots == { i \in 2..Len(name) : name[i] = 46 }
    IN  IF dots = {} THEN name
        ELSE SubSeq(name, 1, (CHOOSE i \in dots : \A j \in dots : j <= i) - 1)

\* the sessions the log has seen begin after the first
Reopenings == Cardinality({ i \in DOMAIN log : log[i].op = "reopen" })

InitSessions ==
    /\ workbook \in SessionWorkbooks /\ stem \in SessionStems
    /\ json_exists = FALSE
    /\ json_source = "none"
    /\ ui = "selector"
    /\ data = <<>>
    /\ current_sheet = 0
    /\ current_category = 0
    /\ current_task = 0
    /\ frame = FALSE
    /\ sel = [ initials |-> <<>>, selected_day |-> <<>>, selected_month |-> <<>>,
               selected_year |-> <<>>, task_status |-> None ]
    /\ pc = "idle"
    /\ rw = NoLocals
    /\ saved = <<>>
    /\ log = <<>>
    /\ chosen = <<>>
    /\ previous_count = 0
    /\ progress = [ shown |-> FALSE, cursor |-> <<0, 0, 0>>, total_tasks |-> 0,
                    current_task_num |-> 0 ]

\* main() once more after a session that saved: IMSSelector, and the file
\* dialog of select_template answered with the document that session saved
Reopen ==
    /\ pc = "saved"
    /\ Reopenings + 1 < MaxSessions
    /\ workbook' = [ i \in DOMAIN workbook |->
                        [ workbook[i] EXCEPT !.cells = saved[1].cells[i] ] ]
    /\ stem' = PathStem(saved[1].name)
    /\ json_source' = "none"
    /\ ui' = "selector"
    /\ data' = <<>>
    /\ current_sheet' = 0
    /\ current_category' = 0
    /\ current_task' = 0
    /\ frame' = FALSE
    /\ sel' = [ initials |-> <<>>, selected_day |-> <<>>, selected_month |-> <<>>,
                selected_year |-> <<>>, task_status |-> None ]
    /\ pc' = "idle"
    /\ rw' = NoLocals
    /\ saved' = <<>>
    /\ log' = Append(log, [op |-> "reopen", sheet |-> 0, ws |-> 0, writes |-> <<>>])
    /\ chosen' = <<>>
    /\ previous_count' = 0
    /\ progress' = [ shown |-> FALSE, cursor |-> <<0, 0, 0>>, total_tasks |-> 0,
                     current_task_num |-> 0 ]
    /\ UNCHANGED json_exists

NextSessions ==
    \/ Next
    \/ Reopen

SpecSessions == InitSessions /\ [][NextSessions]_vars

\* the session has saved its rewrite of an extracted tree, and in the document
\* it began with the row of every task that is written has an even number, at
\* least two, of empty input slots
SessionOfPairs ==
    /\ pc = "saved" /\ json_source = "extracted"
    /\ \A i \in DOMAIN data : \A t \in DOMAIN SheetTasks(i) :
          ~IsCommentTask(SheetTasks(i)[t]) =>
              LET n == Cardinality(EmptyKeys(workbook[i].cells, workbook[i].merged,
                                             SheetTasks(i)[t]))
              IN  n >= 2 /\ n % 2 = 0

\* the saved document holds the date string and a status in the two smallest
\* slots that were empty when the session began, in that order, and every
\* other cell as the session found it
SessionAppends ==
    \A i \in DOMAIN data :
        LET before == workbook[i].cells
            after  == saved[1].cells[i]
            pairs  == { SmallestTwo(EmptyKeys(before, workbook[i].merged, SheetTasks(i)[t])) :
                          t \in { u \in DOMAIN SheetTasks(i) : ~IsCommentTask(SheetTasks(i)[u]) } }
        IN  /\ \A p \in pairs : /\ after[CellOf(p[1])] = WrittenDate
                                 /\ Truthy(after[CellOf(p[2])])
            /\ \A rc \in DOMAIN before :
                  (\A p \in pairs : rc # CellOf(p[1]) /\ rc # CellOf(p[2])) =>
                      after[rc] = before[rc]

\* C23: every session of a run of same-period sessions, each begun on the
\* document the previous one saved, fills the next pair of empty slots of the
\* task row in ascending order and changes no cell that held a value; the
\* period is the same when the label of the file name and the selected label
\* are equal after case normalization.
C23_SessionsAppend ==
    (SessionOfPairs /\ upper(OldLabel) = upper(sel.selected_month)) => SessionAppends

\* the same for the sessions whose file name holds the selected label in
\* upper case
SessionsAppendOnUpperCaseLabel ==
    (SessionOfPairs /\ OldLabel = upper(sel.selected_month)) => SessionAppends

\* a second session that began on a document whose first pair the first
\* session had filled, and filled the second pair
SecondSessionFilledSecondPair ==
    /\ SessionOfPairs /\ Reopenings = 1
    /\ OldLabel = upper(sel.selected_month)
    /\ \A c \in 2..3 : Truthy(workbook[1].cells[<<10, c>>])
    /\ \A c \in 4..5 : ~Truthy(workbook[1].cells[<<10, c>>]) /\ Truthy(saved[1].cells[1][<<10, c>>])
    /\ \E i \in DOMAIN log : log[i].op = "write_same" /\ i < Len(log)

\* the period token of a file name stem of at least two tokens
LabelOf(st) == LET parts == split(st) IN parts[Len(parts) - 1]

\* the mode lines 552 and 560 choose for a file name stem and a selection
ModeDecision(st, d) == IF MonthChanged(LabelOf(st), d[3]) THEN "reset" ELSE "write"

\* the file name stems of three tokens or more and the selections that
\* a rewrite can be compared with
LongStems == Stems \cup YearStems

\* the mode of a decided rewrite is the mode of every file name and selection
\* with the same two period labels, whatever their day and year
ModeIgnoresDayAndYear ==
    (Decided /\ stem \in LongStems) =>
        \A st \in LongStems : \A d \in DetailsChoices :
            (LabelOf(st) = OldLabel /\ d[3] = sel.selected_month) =>
                ModeDecision(st, d) = pc

\* C24: a rewrite chooses the mode that every rewrite with the same two period
\* labels chooses, whatever the day and year of the file name and of the
\* selection; and when the label of the file name is the selected label and
\* the year another, it appends in same-period mode and the reset pass does
\* not run.
C24_ModeByLabelsOnly ==
    /\ ModeIgnoresDayAndYear
    /\ (stem \in LongStems /\ pc \in {"reset", "write", "save", "saved"}
          /\ upper(OldLabel) = upper(sel.selected_month)
          /\ From2(sel.selected_year) # split(stem)[Len(split(stem))]) =>
            pc # "reset" /\ ResetEntries = {}

\* a rewrite of "Fire Panel 07 JAN 23" with the selection (15, Jan, 2024) that
\* ran in same-period mode, and one of "Fire Panel 12 JAN 24" with 2025
SameLabelOtherYear ==
    /\ pc = "saved" /\ WriteSameEntries # {} /\ ResetEntries = {}
    /\ From2(sel.selected_year) # split(stem)[Len(split(stem))]

\* the cursor of the task interface
Cursor == << current_sheet, current_category, current_task >>

\* a step of Next or Previous that moved the cursor and did not complete
CursorMoved == ui = "tasks" /\ pc = "idle" /\ pc' = "idle" /\ Cursor' # Cursor

\* C25: whenever Next or Previous moves the cursor without completing, the
\* three indices of the new cursor are within bounds: the cursor is on a task
\* of the tree.
C25_CursorOnExistingTask ==
    [][ CursorMoved =>
          _validate_indices(data', current_sheet', current_category', current_task') ]_vars

\* one press of Next from cursor (cs, cc, ct), lines 345-371: "error" when
\* _is_last_task or the loop raises, "complete" on the last task or when the
\* loop runs off the last sheet, "show" with the new cursor otherwise
PressNext(d, cs, cc, ct) ==
    LET last == _is_last_task(d, cs, cc, ct)
    IN  IF last = "error" THEN [kind |-> "error", cs |-> cs, cc |-> cc, ct |-> ct]
        ELSE IF last = "yes" THEN [kind |-> "complete", cs |-> cs, cc |-> cc, ct |-> ct]
        ELSE Advance(d, cs, cc, ct)

\* presses of Next from cursor (cs, cc, ct), n at most, reach the completion:
\* a press that neither completes nor moves the cursor ends the count, as
\* every later press does the same
RECURSIVE PressesComplete(_, _, _, _, _)
PressesComplete(d, cs, cc, ct, n) ==
    LET p == PressNext(d, cs, cc, ct)
    IN  IF p.kind = "complete" THEN TRUE
        ELSE IF n = 0 \/ << p.cs, p.cc, p.ct >> = << cs, cc, ct >> THEN FALSE
        ELSE PressesComplete(d, p.cs, p.cc, p.ct, n - 1)

\* C26: from every position of the task interface, pressing Next repeatedly
\* reaches the completion of the checklist (within as many presses as the
\* tree has tasks and sheets).
C26_NextReachesCompletion ==
    (ui = "tasks" /\ pc = "idle") =>
        PressesComplete(data, current_sheet, current_category, current_task,
                        Len(Positions(data, 0)) + Len(data))

\* the same for the trees in which every sheet has a category
NextReachesCompletionWithCategories ==
    (ui = "tasks" /\ pc = "idle" /\ \A i \in DOMAIN data : data[i].categories # <<>>) =>
        PressesComplete(data, current_sheet, current_category, current_task,
                        Len(Positions(data, 0)) + Len(data))

\* a press of Next does what PressNext says: it completes, or leaves the
\* cursor where PressNext puts it
NextFollowsPressNext ==
    [][ (ui = "tasks" /\ pc = "idle" /\ previous_count' = previous_count
          /\ (pc' # pc \/ Cursor' # Cursor)) =>
          LET p == PressNext(data, current_sheet, current_category, current_task)
          IN  IF p.kind = "complete" THEN pc' = "parse"
              ELSE pc' = "idle" /\ Cursor' = << p.cs, p.cc, p.ct >> ]_vars

\* C27: the task that Next or Previous puts the cursor on is not a
\* comment-marker task.
C27_CursorNeverOnCommentTask ==
    [][ CursorMoved =>
          LET cur == _get_current_task(data', current_sheet', current_category',
                                       current_task')
          IN  cur # <<>> => ~IsCommentTask(cur[1]) ]_vars

====
